---- MODULE Spec2Model ----
(***************************************************************************)
(* RingBuf<T> of src/src/ringbuf.rs: a growable double-ended queue kept in *)
(* one block of `cap` slots addressed circularly.                          *)
(*                                                                         *)
(* A buffer is a record [lo, len, cap, ptr, st].  lo, len and cap are the  *)
(* struct's uint fields; ptr is the block, a sequence of cap slots (slot k *)
(* of the code is ptr[k+1]); st tells how the last call on the value       *)
(* ended:                                                                  *)
(*   "ok"      the call returned                                           *)
(*   "failed"  the call failed (assert!/expect: the task unwinds)          *)
(*   "ub"      the call touched memory outside the block and went on       *)
(*   "fault"   the call touched memory outside the block and the process   *)
(*             was stopped                                                 *)
(*   "moved"   the value was consumed (into_vec, drop)                     *)
(*   "underflow" resize was asked for fewer slots than len: its            *)
(*             debug_assert! fails in a debug build, and a release build   *)
(*             copies len elements into the smaller block                  *)
(* elem is mem::size_of::<T>(), fixed when the program is built.           *)
(* uint arithmetic is unchecked and wraps modulo 2^UintBits.  A slot whose *)
(* value was moved out (ptr::read) or that was never written holds Uninit. *)
(***************************************************************************)
EXTENDS Integers, Sequences, FiniteSets, TLC

VARIABLES rb, op, ret, vec, src, fronts, backs, two, own, abs, elem

vars == <<rb, op, ret, vec, src, fronts, backs, two, own, abs, elem>>

\* ---------------------------------------------------------------- bounds
UintBitsLog == 3
MaxCap == 8
MaxLen == 3
MaxVecLen == 2
MaxSpare == 1
MaxPush == 6
MaxInitCap == 3
MaxExt == 2
MaxMut == 2
MaxOwn == 3
MaxBlocks == 3
MaxDrain == 3
MaxAbs == 4

\* ------------------------------------------------------ program constants
INITIAL_CAPACITY == 8
MINIMUM_CAPACITY == 2
\* mem::size_of::<T>()
SizeOfT == elem

\* ------------------------------------------------------------ arithmetic
RECURSIVE TwoPow(_)
TwoPow(n) == IF n = 0 THEN 1 ELSE 2 * TwoPow(n - 1)

\* the width of uint; the code runs with 32 or 64, a power of two
UintBits == TwoPow(UintBitsLog)

UintMax == TwoPow(UintBits) - 1

\* the value a uint holds after an unchecked operation
Uint(x) == x % (UintMax + 1)

\* two distinct element values: enough to tell any two slots apart
Val == {1, 2}
Uninit == 0
None == -1
Wild == -2

\* the one value of a zero-size type
Unit == 1

Min(a, b) == IF a < b THEN a ELSE b
Max(a, b) == IF a < b THEN b ELSE a

RECURSIVE rshift(_, _)
rshift(x, n) == IF n = 0 THEN x ELSE rshift(x \div 2, n - 1)

RECURSIVE BitOr(_, _)
BitOr(a, b) ==
    IF a = 0 THEN b
    ELSE IF b = 0 THEN a
    ELSE 2 * BitOr(a \div 2, b \div 2) + (IF a % 2 = 1 \/ b % 2 = 1 THEN 1 ELSE 0)

RECURSIVE npot_loop(_, _)
npot_loop(tmp, shift) ==
    IF shift <= UintBits \div 2
    THEN npot_loop(BitOr(tmp, rshift(tmp, shift)), Uint(shift * 2))
    ELSE tmp

\* core::num::next_power_of_two as reserve calls it: the bits below the top
\* bit of n - 1 are filled and one is added, all unchecked
next_power_of_two(n) == Uint(npot_loop(Uint(n - 1), 1) + 1)

IsPowerOfTwo(n) == \E k \in 0..UintBits : n = TwoPow(k)

\* ---------------------------------------------------------------- block
Fill(n) == [i \in 1..n |-> Uninit]

Failed(r) == [r EXCEPT !.st = "failed"]

\* slot `off` of the block; memory outside the block holds anything
Read(r, off) ==
    IF SizeOfT = 0 THEN Unit
    ELSE IF off < Len(r.ptr) THEN r.ptr[off + 1] ELSE Wild

\* ptr::write(self.ptr.offset(off), v)
Write(r, off, v) ==
    IF SizeOfT = 0 THEN r
    ELSE IF off < Len(r.ptr) THEN [r EXCEPT !.ptr[off + 1] = v]
    ELSE [r EXCEPT !.st = "ub"]

\* ptr::read moves the value out of the slot
MoveOut(r, off) ==
    IF SizeOfT = 0 THEN r
    ELSE IF off < Len(r.ptr) THEN [r EXCEPT !.ptr[off + 1] = Uninit]
    ELSE [r EXCEPT !.st = "ub"]

\* the n slots of block p from slot `from`
Slots(p, from, n) ==
    [i \in 1..n |-> IF SizeOfT = 0 THEN Unit
                    ELSE IF from + i <= Len(p) THEN p[from + i] ELSE Wild]

\* ptr::copy_memory / copy_nonoverlapping_memory(dst, src, n) inside block p:
\* the source slots are read before any is written (memmove)
Copy(p, dst, data) ==
    [i \in 1..Len(p) |->
        IF i > dst /\ i <= dst + Len(data) THEN data[i - dst] ELSE p[i]]

alloc(capacity) == Fill(capacity)

\* ------------------------------------------------------------ constructors
\* with_capacity without the minimum capacity
with_capacity_unclamped(capacity) ==
    [lo |-> 0, len |-> 0, cap |-> capacity, ptr |-> alloc(capacity), st |-> "ok"]

with_capacity(capacity) ==
    IF SizeOfT = 0
    THEN [lo |-> 0, len |-> 0, cap |-> UintMax, ptr |-> <<>>, st |-> "ok"]
    ELSE LET c == IF capacity < MINIMUM_CAPACITY THEN MINIMUM_CAPACITY ELSE capacity
         IN  IF c * SizeOfT > UintMax
             THEN [lo |-> 0, len |-> 0, cap |-> 0, ptr |-> <<>>, st |-> "failed"]
             ELSE [lo |-> 0, len |-> 0, cap |-> c, ptr |-> alloc(c), st |-> "ok"]

new == with_capacity(INITIAL_CAPACITY)

\* a Vec<T>: len elements at the start of a block of cap slots
MkVec(items, spare) ==
    [len |-> Len(items), cap |-> Len(items) + spare, ptr |-> items \o Fill(spare)]

VecSeq(v) == Slots(v.ptr, 0, v.len)

NoVec == MkVec(<<>>, 0)

\* from_vec taking the block's capacity for the length
from_vec_len_is_cap(v) == [lo |-> 0, len |-> v.cap, cap |-> v.cap, ptr |-> v.ptr, st |-> "ok"]

from_vec(v) == [lo |-> 0, len |-> v.len, cap |-> v.cap, ptr |-> v.ptr, st |-> "ok"]

\* ------------------------------------------------------- index arithmetic
\* get_offset that adds lo and index before it compares with cap
get_offset_add_first(r, index) ==
    IF Uint(r.lo + index) >= r.cap
    THEN Uint(Uint(r.lo + index) - r.cap)
    ELSE Uint(r.lo + index)

\* the value of each subtraction and addition get_offset(index) evaluates,
\* in order, before it is cut to the width of uint
get_offset_values(r, index) ==
    IF r.lo >= Uint(r.cap - index)
    THEN <<r.cap - index, r.cap - r.lo, index - Uint(r.cap - r.lo)>>
    ELSE <<r.cap - index, r.lo + index>>

get_offset(r, index) ==
    IF r.lo >= Uint(r.cap - index)
    THEN Uint(index - Uint(r.cap - r.lo))
    ELSE Uint(r.lo + index)

get_back_offset(r) == get_offset(r, r.len)

\* get_front_offset without the wrap to the last slot
get_front_offset_nowrap(r) == Uint(r.lo - 1)

get_front_offset(r) == IF r.lo = 0 THEN Uint(r.cap - 1) ELSE Uint(r.lo - 1)

\* ---------------------------------------------------------- view splitter
\* a slice is [data, len]: len slots of the block from slot data
as_slices(r) ==
    IF r.lo > Uint(r.cap - r.len)
    THEN LET len1 == Uint(r.cap - r.lo)
         IN  << [data |-> r.lo, len |-> len1],
                [data |-> 0, len |-> Uint(r.len - len1)] >>
    ELSE << [data |-> r.lo, len |-> r.len], [data |-> 0, len |-> 0] >>

SliceSeq(r, s) == Slots(r.ptr, s.data, s.len)

\* iter(): slice1.iter().chain(slice2.iter())
iter(r) == SliceSeq(r, as_slices(r)[1]) \o SliceSeq(r, as_slices(r)[2])

as_mut_slices(r) ==
    IF r.lo > Uint(r.cap - r.len)
    THEN LET len1 == Uint(r.cap - r.lo)
         IN  << [data |-> r.lo, len |-> len1],
                [data |-> 0, len |-> Uint(r.len - len1)] >>
    ELSE << [data |-> r.lo, len |-> r.len], [data |-> 0, len |-> 0] >>

\* a Chain of two slice iterators: the elements each has still to yield
chain(a, b) == [a |-> a, b |-> b]

\* Chain::next: the first iterator until it is exhausted, then the second
chain_next(it) ==
    IF it.a # <<>> THEN [it |-> [it EXCEPT !.a = Tail(it.a)], val |-> Head(it.a)]
    ELSE IF it.b # <<>> THEN [it |-> [it EXCEPT !.b = Tail(it.b)], val |-> Head(it.b)]
    ELSE [it |-> it, val |-> None]

\* Chain::size_hint: the sums of the two exact slice hints; no upper bound
\* if the sum does not fit a uint
chain_size_hint(it) ==
    [lower |-> Min(Len(it.a) + Len(it.b), UintMax),
     upper |-> IF Len(it.a) + Len(it.b) > UintMax THEN None ELSE Len(it.a) + Len(it.b)]

\* iter() with the two slices chained in the wrong order
Items_swapped(r) == chain(SliceSeq(r, as_slices(r)[2]), SliceSeq(r, as_slices(r)[1]))

\* the iterator iter() returns
Items(r) == chain(SliceSeq(r, as_slices(r)[1]), SliceSeq(r, as_slices(r)[2]))

\* the iterator mut_iter() returns
MutItems(r) == chain(SliceSeq(r, as_mut_slices(r)[1]), SliceSeq(r, as_mut_slices(r)[2]))

\* next_back that takes from the first iterator before the second
chain_next_back_a_first(it) ==
    IF it.a # <<>>
    THEN [it |-> [it EXCEPT !.a = SubSeq(it.a, 1, Len(it.a) - 1)], val |-> it.a[Len(it.a)]]
    ELSE IF it.b # <<>>
    THEN [it |-> [it EXCEPT !.b = SubSeq(it.b, 1, Len(it.b) - 1)], val |-> it.b[Len(it.b)]]
    ELSE [it |-> it, val |-> None]

\* Chain::next_back, the next() of iter().rev(): the second iterator from its
\* end until it is exhausted, then the first from its end
chain_next_back(it) ==
    IF it.b # <<>>
    THEN [it |-> [it EXCEPT !.b = SubSeq(it.b, 1, Len(it.b) - 1)], val |-> it.b[Len(it.b)]]
    ELSE IF it.a # <<>>
    THEN [it |-> [it EXCEPT !.a = SubSeq(it.a, 1, Len(it.a) - 1)], val |-> it.a[Len(it.a)]]
    ELSE [it |-> it, val |-> None]

\* an iterator after k calls of next_back
RECURSIVE advance_back(_, _)
advance_back(it, k) == IF k = 0 THEN it ELSE advance_back(chain_next_back(it).it, k - 1)

\* an iterator after k calls of next
RECURSIVE advance(_, _)
advance(it, k) == IF k = 0 THEN it ELSE advance(chain_next(it).it, k - 1)

\* eq without the comparison of the lengths
eq_no_len(a, b) ==
    \A i \in 1..Min(Len(iter(a)), Len(iter(b))) : iter(a)[i] = iter(b)[i]

\* PartialEq::eq: the lengths, then the zipped traversals
eq(a, b) ==
    /\ a.len = b.len
    /\ \A i \in 1..Min(Len(iter(a)), Len(iter(b))) : iter(a)[i] = iter(b)[i]

\* PartialOrd::lt: every zipped pair is in order, and self is the shorter
lt(a, b) ==
    /\ \A i \in 1..Min(Len(iter(a)), Len(iter(b))) : iter(a)[i] < iter(b)[i]
    /\ a.len < b.len

\* Ord::cmp of two elements or two lengths
int_cmp(x, y) == IF x < y THEN "Less" ELSE IF x = y THEN "Equal" ELSE "Greater"

\* the `for (a, b) in self.iter().zip(other.iter())` loop of cmp from pair i
RECURSIVE cmp_loop(_, _, _, _)
cmp_loop(s, t, i, last) ==
    IF i > Min(Len(s), Len(t)) THEN last
    ELSE IF int_cmp(s[i], t[i]) # "Equal" THEN int_cmp(s[i], t[i])
    ELSE cmp_loop(s, t, i + 1, last)

\* cmp that lets the lengths decide before the elements
cmp_len_first(a, b) ==
    IF a.len # b.len THEN int_cmp(a.len, b.len)
    ELSE cmp_loop(iter(a), iter(b), 1, "Equal")

\* Ord::cmp
cmp(a, b) == cmp_loop(iter(a), iter(b), 1, int_cmp(a.len, b.len))

\* ------------------------------------------------------------------ access
\* get with the bound off by one
get_off_by_one(r, index) ==
    IF index <= r.len
    THEN [rb |-> r, val |-> Read(r, get_offset(r, index))]
    ELSE [rb |-> Failed(r), val |-> None]

get(r, index) ==
    IF index < r.len
    THEN [rb |-> r, val |-> Read(r, get_offset(r, index))]
    ELSE [rb |-> Failed(r), val |-> None]

\* get_mut(index) followed by a store of v through the reference
get_mut(r, index, v) ==
    IF index < r.len
    THEN [rb |-> Write(r, get_offset(r, index), v), val |-> None]
    ELSE [rb |-> Failed(r), val |-> None]

\* swap that takes the indices for slots of the block
swap_raw(r, i, j) ==
    IF ~(i < r.len) THEN Failed(r)
    ELSE IF ~(j < r.len) THEN Failed(r)
    ELSE Write(Write(r, i, Read(r, j)), j, Read(r, i))

swap(r, i, j) ==
    IF ~(i < r.len) THEN Failed(r)
    ELSE IF ~(j < r.len) THEN Failed(r)
    ELSE LET i_offset == get_offset(r, i)
             j_offset == get_offset(r, j)
         IN  Write(Write(r, i_offset, Read(r, j_offset)), j_offset, Read(r, i_offset))

front(r) == IF r.len > 0 THEN get(r, 0) ELSE [rb |-> r, val |-> None]

front_mut(r, v) == IF r.len > 0 THEN get_mut(r, 0, v) ELSE [rb |-> r, val |-> None]

back(r) == IF r.len > 0 THEN get(r, r.len - 1) ELSE [rb |-> r, val |-> None]

back_mut(r, v) ==
    LET len == r.len
    IN  IF len > 0 THEN get_mut(r, len - 1, v) ELSE [rb |-> r, val |-> None]

\* ----------------------------------------------------------- reflow engine
\* resize with the two slices copied in the wrong order
resize_slices_swapped(r, capacity) ==
    IF capacity < r.len THEN Failed(r)
    ELSE IF capacity = r.cap THEN r
    ELSE LET slice1 == as_slices(r)[1]
             slice2 == as_slices(r)[2]
             ptr == Copy(Copy(alloc(capacity), 0, SliceSeq(r, slice2)),
                         slice2.len, SliceSeq(r, slice1))
         IN  [r EXCEPT !.ptr = ptr, !.cap = capacity, !.lo = 0]

\* dealloc(ptr, capacity): the capacity deallocate is called with, None if
\* the elements have size zero and it is not called
dealloc(capacity) == IF SizeOfT # 0 THEN capacity ELSE None

\* the capacity deallocate is called with by resize(capacity), None if it is
\* not called
resize_dealloc(r, capacity) ==
    IF capacity = r.cap THEN None
    ELSE IF SizeOfT = 0 THEN None
    ELSE dealloc(r.cap)

\* the capacity deallocate is called with when the buffer is dropped, None
\* if it is not called
drop_dealloc(r) == IF r.cap # 0 THEN dealloc(r.cap) ELSE None

\* resize that leaves lo where it was
resize_keeps_lo(r, capacity) ==
    IF capacity < r.len THEN [r EXCEPT !.st = "underflow"]
    ELSE IF capacity = r.cap THEN r
    ELSE IF SizeOfT = 0 THEN r
    ELSE IF capacity * SizeOfT > UintMax THEN Failed(r)
    ELSE LET slice1 == as_slices(r)[1]
             slice2 == as_slices(r)[2]
             len1 == slice1.len
             ptr == Copy(Copy(alloc(capacity), 0, SliceSeq(r, slice1)),
                         len1, SliceSeq(r, slice2))
         IN  [r EXCEPT !.ptr = ptr, !.cap = capacity]

resize(r, capacity) ==
    IF capacity < r.len THEN [r EXCEPT !.st = "underflow"]
    ELSE IF capacity = r.cap THEN r
    ELSE IF SizeOfT = 0 THEN r
    ELSE IF capacity * SizeOfT > UintMax THEN Failed(r)
    ELSE LET slice1 == as_slices(r)[1]
             slice2 == as_slices(r)[2]
             len1 == slice1.len
             ptr == Copy(Copy(alloc(capacity), 0, SliceSeq(r, slice1)),
                         len1, SliceSeq(r, slice2))
         IN  [r EXCEPT !.ptr = ptr, !.cap = capacity, !.lo = 0]

\* reset whose last case moves span1 before span2 is saved in the scratch block
reset_span2_unsaved(r) ==
    IF r.lo = 0 THEN r
    ELSE LET slice1 == as_slices(r)[1]
             slice2 == as_slices(r)[2]
             len1 == slice1.len
             len2 == slice2.len
             p1 == IF len2 = 0
                   THEN Copy(r.ptr, 0, Slots(r.ptr, r.lo, r.len))
                   ELSE r.ptr
             p2 == IF len1 <= Uint(Uint(r.cap - len1) - len2)
                   THEN LET a == Copy(p1, slice1.len,
                                      Slots(p1, slice2.data, slice2.len))
                        IN  Copy(a, 0, Slots(a, slice1.data, slice1.len))
                   ELSE IF len1 < len2
                   THEN LET tmp == Slots(p1, slice1.data, len1)
                            a == Copy(p1, len1, Slots(p1, slice2.data, len2))
                        IN  Copy(a, 0, tmp)
                   ELSE LET a == Copy(p1, 0, Slots(p1, slice1.data, len1))
                            tmp == Slots(a, slice2.data, len2)
                        IN  Copy(a, len1, tmp)
         IN  [r EXCEPT !.ptr = p2, !.lo = 0]

reset(r) ==
    IF r.lo = 0 THEN r
    ELSE LET slice1 == as_slices(r)[1]
             slice2 == as_slices(r)[2]
             len1 == slice1.len
             len2 == slice2.len
             \* `if len1 == 0 { }` has no else: the next `if` always runs
             p1 == IF len2 = 0
                   THEN Copy(r.ptr, 0, Slots(r.ptr, r.lo, r.len))
                   ELSE r.ptr
             \* `} if len1 <= ... { } else if ... { } else { }` always runs too
             p2 == IF len1 <= Uint(Uint(r.cap - len1) - len2)
                   THEN LET a == Copy(p1, slice1.len,
                                      Slots(p1, slice2.data, slice2.len))
                        IN  Copy(a, 0, Slots(a, slice1.data, slice1.len))
                   ELSE IF len1 < len2
                   THEN LET tmp == Slots(p1, slice1.data, len1)
                            a == Copy(p1, len1, Slots(p1, slice2.data, len2))
                        IN  Copy(a, 0, tmp)
                   ELSE LET tmp == Slots(p1, slice2.data, len2)
                            a == Copy(p1, 0, Slots(p1, slice1.data, len1))
                        IN  Copy(a, len1, tmp)
         IN  [r EXCEPT !.ptr = p2, !.lo = 0]

\* one ptr::copy_memory / copy_nonoverlapping_memory of reset: n elements to
\* slot `at` of `to` from slot `off` of `from`, each the buffer's block or the
\* scratch block
Move(to, at, from, off, n) == [to |-> to, at |-> at, from |-> from, off |-> off, n |-> n]

\* reset's copies with the scratch block copied back at offset len2 in the
\* case len1 < len2
reset_moves_back_at_len2(r) ==
    IF r.lo = 0 THEN <<>>
    ELSE LET slice1 == as_slices(r)[1]
             slice2 == as_slices(r)[2]
             len1 == slice1.len
             len2 == slice2.len
         IN  (IF len2 = 0
              THEN <<Move("block", 0, "block", r.lo, r.len)>>
              ELSE <<>>)
             \o (IF len1 <= Uint(Uint(r.cap - len1) - len2)
                 THEN <<Move("block", slice1.len, "block", slice2.data, slice2.len),
                        Move("block", 0, "block", slice1.data, slice1.len)>>
                 ELSE IF len1 < len2
                 THEN <<Move("scratch", 0, "block", slice1.data, len1),
                        Move("block", len1, "block", slice2.data, len2),
                        Move("block", len2, "scratch", 0, len1)>>
                 ELSE <<Move("scratch", 0, "block", slice2.data, len2),
                        Move("block", 0, "block", slice1.data, len1),
                        Move("block", len1, "scratch", 0, len2)>>)

\* the copies one call of reset performs, in order
reset_moves(r) ==
    IF r.lo = 0 THEN <<>>
    ELSE LET slice1 == as_slices(r)[1]
             slice2 == as_slices(r)[2]
             len1 == slice1.len
             len2 == slice2.len
         IN  (IF len2 = 0
              THEN <<Move("block", 0, "block", r.lo, r.len)>>
              ELSE <<>>)
             \o (IF len1 <= Uint(Uint(r.cap - len1) - len2)
                 THEN <<Move("block", slice1.len, "block", slice2.data, slice2.len),
                        Move("block", 0, "block", slice1.data, slice1.len)>>
                 ELSE IF len1 < len2
                 THEN <<Move("scratch", 0, "block", slice1.data, len1),
                        Move("block", len1, "block", slice2.data, len2),
                        Move("block", 0, "scratch", 0, len1)>>
                 ELSE <<Move("scratch", 0, "block", slice2.data, len2),
                        Move("block", 0, "block", slice1.data, len1),
                        Move("block", len1, "scratch", 0, len2)>>)

\* the capacity reset passes to alloc for its scratch block, None if it
\* allocates none
reset_scratch(r) ==
    IF r.lo = 0 THEN None
    ELSE LET len1 == as_slices(r)[1].len
             len2 == as_slices(r)[2].len
         IN  IF len1 <= Uint(Uint(r.cap - len1) - len2) THEN None
             ELSE IF len1 < len2 THEN len1
             ELSE len2

\* the capacity reset passes to dealloc with its scratch block before it
\* returns, None if it calls dealloc for none
reset_dealloc(r) ==
    IF r.lo = 0 THEN None
    ELSE LET len1 == as_slices(r)[1].len
             len2 == as_slices(r)[2].len
         IN  IF len1 <= Uint(Uint(r.cap - len1) - len2) THEN None
             ELSE IF len1 < len2 THEN len1
             ELSE len2

into_vec(r) ==
    LET g == reset(r)
    IN  [len |-> g.len, cap |-> g.cap, ptr |-> g.ptr]

\* ------------------------------------------------------------------- deque
\* push_back that grows one element before the block is full
push_back_eager(r, value) ==
    LET g == IF r.len + 1 >= r.cap THEN resize(r, Uint(r.cap * 2)) ELSE r
        w == Write(g, get_back_offset(g), value)
    IN  IF g.st # "ok" THEN g ELSE [w EXCEPT !.len = Uint(g.len + 1)]

push_back(r, value) ==
    IF SizeOfT = 0
    THEN IF r.len + 1 > UintMax THEN Failed(r) ELSE [r EXCEPT !.len = r.len + 1]
    ELSE LET g == IF r.len = r.cap THEN resize(r, Uint(r.len * 2)) ELSE r
             offset == get_back_offset(g)
             w == Write(g, offset, value)
         IN  IF g.st # "ok" THEN g ELSE [w EXCEPT !.len = Uint(g.len + 1)]

\* push_front with the front offset taken before the growth step
push_front_offset_first(r, value) ==
    IF SizeOfT = 0
    THEN IF r.len + 1 > UintMax THEN Failed(r) ELSE [r EXCEPT !.len = r.len + 1]
    ELSE LET offset == get_front_offset(r)
             g == IF r.len = r.cap THEN resize(r, Uint(r.len * 2)) ELSE r
             w == Write(g, offset, value)
         IN  IF g.st # "ok" THEN g
             ELSE [w EXCEPT !.len = Uint(g.len + 1), !.lo = offset]

push_front(r, value) ==
    IF SizeOfT = 0
    THEN IF r.len + 1 > UintMax THEN Failed(r) ELSE [r EXCEPT !.len = r.len + 1]
    ELSE LET g == IF r.len = r.cap THEN resize(r, Uint(r.len * 2)) ELSE r
             offset == get_front_offset(g)
             w == Write(g, offset, value)
         IN  IF g.st # "ok" THEN g
             ELSE [w EXCEPT !.len = Uint(g.len + 1), !.lo = offset]

\* pop_back without the test for the empty buffer
pop_back_unguarded(r) ==
    LET offset == get_offset(r, Uint(r.len - 1))
    IN  [rb |-> [MoveOut(r, offset) EXCEPT !.len = Uint(r.len - 1)],
         val |-> Read(r, offset)]

pop_back(r) ==
    IF r.len = 0 THEN [rb |-> r, val |-> None]
    ELSE LET offset == get_offset(r, r.len - 1)
         IN  [rb |-> [MoveOut(r, offset) EXCEPT !.len = r.len - 1],
              val |-> Read(r, offset)]

\* pop_front that does not advance lo
pop_front_keeps_lo(r) ==
    IF r.len = 0 THEN [rb |-> r, val |-> None]
    ELSE LET offset == get_offset(r, 0)
         IN  [rb |-> [MoveOut(r, offset) EXCEPT !.len = r.len - 1],
              val |-> Read(r, offset)]

pop_front(r) ==
    IF r.len = 0 THEN [rb |-> r, val |-> None]
    ELSE LET offset == get_offset(r, 0)
         IN  [rb |-> [MoveOut(r, offset) EXCEPT !.lo = get_offset(r, 1),
                                                !.len = r.len - 1],
              val |-> Read(r, offset)]

\* truncate that drops one element at most
truncate_one(r, len) == IF len < r.len THEN pop_back(r).rb ELSE r

RECURSIVE truncate(_, _)
truncate(r, len) ==
    IF len < r.len
    THEN LET g == [r EXCEPT !.len = r.len - 1]
         IN  truncate(MoveOut(g, get_offset(g, g.len)), len)
    ELSE r

clear(r) == truncate(r, 0)

\* ---------------------------------------------------------------- capacity
capacity(r) == r.cap

\* reserve_exact without the test against the present capacity
reserve_exact_unguarded(r, n) == resize(r, n)

reserve_exact(r, n) == IF n > r.cap THEN resize(r, n) ELSE r

\* reserve without the rounding to a power of two
reserve_unrounded(r, n) == reserve_exact(r, n)

reserve(r, n) == reserve_exact(r, next_power_of_two(n))

reserve_additional(r, extra) ==
    IF Uint(r.cap - r.len) < extra
    THEN IF r.len + extra > UintMax THEN Failed(r) ELSE reserve(r, r.len + extra)
    ELSE r

shrink_to_fit(r) == resize(r, r.len)

\* ------------------------------------------------------------ bulk operations
RECURSIVE push_all(_, _)
push_all(r, items) ==
    IF items = <<>> \/ r.st # "ok" THEN r
    ELSE push_all(push_back(r, Head(items)), Tail(items))

\* the pre-reservation of extend: self.reserve_additional(len + lower)
extend_reserve(r, lower) == reserve_additional(r, Uint(r.len + lower))

\* extend(iterator): the iterator yields `items` and reports `lower` as the
\* lower bound of its size hint
extend(r, items, lower) ==
    LET len == r.len
        g == reserve_additional(r, Uint(len + lower))
    IN  push_all(g, items)

from_iter(items, lower) == push_all(with_capacity(lower), items)

RECURSIVE clone_loop(_, _, _)
clone_loop(ringbuf, data, n) ==
    IF ringbuf.len < n
    THEN clone_loop([Write(ringbuf, ringbuf.len, data[ringbuf.len + 1])
                        EXCEPT !.len = ringbuf.len + 1], data, n)
    ELSE ringbuf

clone(r) ==
    LET slice1 == as_slices(r)[1]
        slice2 == as_slices(r)[2]
        ringbuf == with_capacity(r.len)
        a == clone_loop(ringbuf, SliceSeq(r, slice1), slice1.len)
    IN  clone_loop(a, Fill(slice1.len) \o SliceSeq(r, slice2), slice1.len + slice2.len)

\* ------------------------------------------------------------------ inputs
SeqsUpTo(n) == UNION {[1..k -> Val] : k \in 0..n}

Vecs == {MkVec(items, spare) : items \in SeqsUpTo(MaxVecLen), spare \in 0..MaxSpare}

Indices == 0..MaxLen

\* requested capacities the model can allocate, and one it cannot
SmallSizes == (0..(MaxLen + 2)) \cup {MaxCap, MaxCap + 1}

\* requested capacities: the small ones, and those above the top bit of uint
Sizes == SmallSizes \cup {UintMax \div 2 + 2, UintMax - 1, UintMax}

NoSrc == [valid |-> FALSE, items |-> <<>>]

\* ------------------------------------------------- two buffers and the heap
\* For a buffer and its clone the blocks are kept in a heap: `two.heap` is
\* the sequence of blocks allocated so far, and a handle [lo, len, cap, blk,
\* st] is a RingBuf whose ptr field points at block blk.  two.x is the buffer
\* that was cloned, two.y its clone, two.last the handle the last call was
\* made on, two.n the number of calls made on either since the clone.
NoHandle == [lo |-> 0, len |-> 0, cap |-> 0, blk |-> 0, st |-> "moved"]

NoTwo == [on |-> FALSE, x |-> NoHandle, y |-> NoHandle, heap |-> <<>>, last |-> "x", n |-> 0]

Handle(r, blk) == [lo |-> r.lo, len |-> r.len, cap |-> r.cap, blk |-> blk, st |-> r.st]

\* the buffer a handle stands for in heap t.heap
ViewIn(t, s) ==
    [lo |-> t[s].lo, len |-> t[s].len, cap |-> t[s].cap,
     ptr |-> t.heap[t[s].blk], st |-> t[s].st]

\* ------------------------------------------------ ownership of what is stored
\* Elements are numbered as they are stored.  own.next is the number the
\* next element will carry and own.rel[e] how often element e was released
\* (handed to the caller or destroyed).  own.blocks[b] is the state of block
\* b of the allocator: who owns it ("rb", "vec", or "none") and how often it
\* was freed; own.blk is the block the buffer's ptr field points at (0: the
\* pointer of a Vec that never allocated, or what allocate(0) returned when
\* that is no block); own.badfree counts calls of deallocate on a pointer
\* that is no block.
NoOwn == [on |-> FALSE, next |-> 1, rel |-> <<>>, blocks |-> <<>>, blk |-> 0, badfree |-> 0]

\* allocate(size): a new block owned by the buffer; for size 0 the allocator
\* may hand out a block (real) or a pointer that is none
own_alloc(o, real) ==
    IF real
    THEN [o EXCEPT !.blocks = Append(@, [owner |-> "rb", frees |-> 0]),
                   !.blk = Len(o.blocks) + 1]
    ELSE [o EXCEPT !.blk = 0]

\* dealloc(self.ptr, self.cap): deallocate, unless the elements have size zero
own_dealloc(o) ==
    IF SizeOfT = 0 THEN o
    ELSE IF o.blk = 0 THEN [o EXCEPT !.badfree = @ + 1]
    ELSE [o EXCEPT !.blocks[o.blk].frees = @ + 1, !.blocks[o.blk].owner = "none"]

\* what a call that took the buffer from r to q did to the blocks: resize,
\* which ran exactly when cap changed, allocated the new block and released
\* the old one
own_resize(o, r, q, real) ==
    IF q.cap = r.cap THEN o
    ELSE LET a == own_alloc(o, real)
         IN  [own_dealloc([a EXCEPT !.blk = o.blk]) EXCEPT !.blk = a.blk]

\* the elements of sequence ids are released
own_release(o, ids) ==
    [o EXCEPT !.rel = [e \in DOMAIN o.rel |->
                          o.rel[e] + Cardinality({i \in DOMAIN ids : ids[i] = e})]]

\* from_vec: the Vec's block, if it has one, is the buffer's; mem::forget(vec)
own_from_vec(v) ==
    [on |-> TRUE, next |-> v.len + 1, rel |-> [e \in 1..MaxOwn |-> 0],
     blocks |-> IF v.cap = 0 THEN <<>> ELSE <<[owner |-> "rb", frees |-> 0]>>,
     blk |-> IF v.cap = 0 THEN 0 ELSE 1, badfree |-> 0]

\* with_capacity: allocate
own_with_capacity ==
    [on |-> TRUE, next |-> 1, rel |-> [e \in 1..MaxOwn |-> 0],
     blocks |-> <<[owner |-> "rb", frees |-> 0]>>, blk |-> 1, badfree |-> 0]

\* into_vec: Vec::from_raw_parts(len, cap, ptr); mem::forget(self).  The
\* elements of the Vec are the caller's.
own_into_vec(o, v) ==
    LET g == own_release(o, VecSeq(v))
    IN  IF o.blk = 0 THEN g ELSE [g EXCEPT !.blocks[o.blk].owner = "vec"]

\* Drop::drop: with cap != 0 every element of iter() is read out and the
\* block released; with cap == 0 nothing is done.  The buffer is gone.
drop(o, r) ==
    IF r.cap # 0
    THEN own_dealloc(own_release(o, iter(r)))
    ELSE IF o.blk = 0 THEN o ELSE [o EXCEPT !.blocks[o.blk].owner = "none"]

\* the block clone() fills: the one with_capacity(self.len) allocated
clone_block_shared(self_blk, fresh) == self_blk

clone_block(self_blk, fresh) == fresh

\* the buffers one mutating call can leave
Mutations(r) ==
    {push_back(r, v) : v \in Val} \cup {push_front(r, v) : v \in Val}
        \cup {pop_back(r).rb, pop_front(r).rb}
        \cup {swap(r, i, j) : i \in 0..MaxLen, j \in 0..MaxLen}
        \cup {truncate(r, k) : k \in 0..MaxLen}
        \cup {get_mut(r, i, v).rb : i \in 0..MaxLen, v \in Val}

\* handle s after a call that left buffer r: resize, the only place a block
\* is allocated and the old one released, ran exactly when cap changed
Store(t, s, r) ==
    LET moved == r.cap # t[s].cap
        blk == IF moved THEN Len(t.heap) + 1 ELSE t[s].blk
    IN  [t EXCEPT ![s] = Handle(r, blk),
                  !.heap = IF moved THEN Append(t.heap, r.ptr)
                           ELSE [t.heap EXCEPT ![blk] = r.ptr],
                  !.last = s,
                  !.n = t.n + 1]

\* what a call that touched memory outside the block can leave behind: the
\* process goes on with the fields the code computed, or it is stopped
Outcomes(r) == IF r.st = "ub" THEN {r, [rb EXCEPT !.st = "fault"]} ELSE {r}

\* one call of the program: its name, the buffer it leaves, the value it returns
Do(name, r, x) ==
    /\ r.cap <= MaxCap
    /\ r.len <= MaxLen \/ r.st # "ok"
    /\ \E q \in Outcomes(r) : rb' = q
    /\ op' = name
    /\ ret' = x
    /\ vec' = NoVec
    /\ src' = NoSrc
    /\ UNCHANGED <<fronts, backs, two, own, abs, elem>>

Live == rb.st = "ok"

\* ----------------------------------------------------------------- actions
\* into_vec takes the buffer by value: rb keeps the fields it had when it was
\* consumed, vec is the sequence handed out
IntoVec ==
    /\ Live
    /\ rb' = [rb EXCEPT !.st = "moved"]
    /\ op' = "into_vec"
    /\ ret' = None
    /\ vec' = into_vec(rb)
    /\ src' = src
    /\ UNCHANGED <<fronts, backs, two, own, abs, elem>>

Get == Live /\ \E i \in Indices : Do("get", get(rb, i).rb, get(rb, i).val)

GetMut == Live /\ \E i \in Indices : \E v \in Val : Do("get_mut", get_mut(rb, i, v).rb, None)

Swap == Live /\ \E i \in Indices : \E j \in Indices : Do("swap", swap(rb, i, j), None)

Front == Live /\ Do("front", front(rb).rb, front(rb).val)

Back == Live /\ Do("back", back(rb).rb, back(rb).val)

FrontMut == Live /\ \E v \in Val : Do("front_mut", front_mut(rb, v).rb, None)

BackMut == Live /\ \E v \in Val : Do("back_mut", back_mut(rb, v).rb, None)

PushBack == Live /\ \E v \in Val : Do("push_back", push_back(rb, v), None)

PushFront == Live /\ \E v \in Val : Do("push_front", push_front(rb, v), None)

PopBack == Live /\ Do("pop_back", pop_back(rb).rb, pop_back(rb).val)

PopFront == Live /\ Do("pop_front", pop_front(rb).rb, pop_front(rb).val)

Truncate == Live /\ \E k \in Indices : Do("truncate", truncate(rb, k), None)

Clear == Live /\ Do("clear", clear(rb), None)

Reserve == Live /\ \E n \in Sizes : Do("reserve", reserve(rb, n), None)

ReserveExact == Live /\ \E n \in SmallSizes : Do("reserve_exact", reserve_exact(rb, n), None)

ReserveAdditional ==
    Live /\ \E n \in Sizes : Do("reserve_additional", reserve_additional(rb, n), None)

ShrinkToFit == Live /\ Do("shrink_to_fit", shrink_to_fit(rb), None)

Extend ==
    Live /\ \E items \in SeqsUpTo(MaxExt) : \E lower \in 0..Len(items) :
        Do("extend", extend(rb, items, lower), None)

Clone == Live /\ Do("clone", clone(rb), None)

\* iter() and the first call of next on the iterator
Iter == Live /\ Do("iter", rb, chain_next(Items(rb)).val)

\* iter().rev() and the first call of next on it
RevIter == Live /\ Do("rev_iter", rb, chain_next_back(Items(rb)).val)

\* ----------------------------------------------------------- specifications
\* the buffers the constructors return: <<constructor, buffer, donor sequence>>
Constructed ==
    {<<"new", new, NoSrc>>}
        \cup {<<"with_capacity", with_capacity(c), NoSrc>> : c \in 0..MaxInitCap}
        \cup {<<"from_vec", from_vec(v), [valid |-> TRUE, items |-> VecSeq(v)]>> : v \in Vecs}
        \cup {<<"from_iter", from_iter(items, Len(items)), NoSrc>> : items \in SeqsUpTo(MaxExt)}
        \cup {<<"from_iter", from_iter(items, 0), NoSrc>> : items \in SeqsUpTo(MaxExt)}

Init ==
    /\ elem = 1
    /\ own = NoOwn
    /\ abs = <<>>
    /\ \E c \in Constructed : rb = c[2] /\ op = c[1] /\ src = c[3]
    /\ ret = None
    /\ vec = NoVec
    /\ fronts = <<>>
    /\ backs = <<>>
    /\ two = NoTwo

Next ==
    \/ IntoVec
    \/ Get \/ GetMut \/ Swap \/ Front \/ Back \/ FrontMut \/ BackMut
    \/ PushBack \/ PushFront \/ PopBack \/ PopFront \/ Truncate \/ Clear
    \/ Reserve \/ ReserveExact \/ ReserveAdditional \/ ShrinkToFit
    \/ Extend \/ Clone \/ Iter \/ RevIter

Spec == Init /\ [][Next]_vars

\* pushes only, from with_capacity(c), with the pushed values recorded
InitPush ==
    /\ elem = 1
    /\ own = NoOwn
    /\ abs = <<>>
    /\ \E c \in 0..MaxInitCap : rb = with_capacity(c)
    /\ op = "with_capacity"
    /\ ret = None
    /\ vec = NoVec
    /\ src = NoSrc
    /\ fronts = <<>>
    /\ backs = <<>>
    /\ two = NoTwo

PushFrontRecorded ==
    /\ Live
    /\ Len(fronts) + Len(backs) < MaxPush
    /\ \E v \in Val :
        /\ \E q \in Outcomes(push_front(rb, v)) : rb' = q
        /\ fronts' = Append(fronts, v)
    /\ op' = "push_front"
    /\ UNCHANGED <<ret, vec, src, backs, two, own, abs, elem>>

PushBackRecorded ==
    /\ Live
    /\ Len(fronts) + Len(backs) < MaxPush
    /\ \E v \in Val :
        /\ \E q \in Outcomes(push_back(rb, v)) : rb' = q
        /\ backs' = Append(backs, v)
    /\ op' = "push_back"
    /\ UNCHANGED <<ret, vec, src, fronts, two, own, abs, elem>>

NextPush == PushFrontRecorded \/ PushBackRecorded

SpecPush == InitPush /\ [][NextPush]_vars

RECURSIVE push_front_all(_, _)
push_front_all(r, items) ==
    IF items = <<>> \/ r.st # "ok" THEN r
    ELSE push_front_all(push_front(r, Head(items)), Tail(items))

\* buffers to compare with: the same sequences built three ways, by from_vec
\* (lo 0, full), by push_back calls and by push_front calls (wrapped, grown)
Others ==
    UNION {{from_vec(MkVec(items, 0)),
            push_all(with_capacity(0), items),
            push_front_all(with_capacity(0), [i \in 1..Len(items) |-> items[Len(items) + 1 - i]])}
           : items \in SeqsUpTo(MaxLen)}

\* a buffer built by pushes and pops, then cloned, then calls on either
BuildStep == ~two.on /\ (PushBack \/ PushFront \/ PopFront)

CloneTake ==
    /\ Live
    /\ ~two.on
    /\ two' = [on |-> TRUE,
               x |-> Handle(rb, 1),
               y |-> Handle(clone(rb), clone_block(1, 2)),
               heap |-> <<rb.ptr, clone(rb).ptr>>,
               last |-> "y",
               n |-> 0]
    /\ op' = "clone"
    /\ UNCHANGED <<rb, ret, vec, src, fronts, backs, own, abs, elem>>

Mutate ==
    /\ two.on
    /\ two.n < MaxMut
    /\ \E s \in {"x", "y"} :
          \E r \in Mutations(ViewIn(two, s)) :
              /\ r.st = "ok"
              /\ r.len <= MaxLen
              /\ two' = Store(two, s, r)
    /\ op' = "mutate"
    /\ UNCHANGED <<rb, ret, vec, src, fronts, backs, own, abs, elem>>

\* ------------------------------------------------- a buffer of half a word
\* half the range of uint: the least length whose double does not fit
Half == TwoPow(UintBits - 1)

\* a full buffer of Half one-byte elements, taken over from a Vec, and calls
\* at its ends and for more room
InitBig ==
    /\ elem = 1
    /\ own = NoOwn
    /\ abs = <<>>
    /\ two = NoTwo
    /\ \E v \in Val : rb = from_vec(MkVec([i \in 1..Half |-> v], 0))
    /\ op = "from_vec"
    /\ ret = None
    /\ vec = NoVec
    /\ src = NoSrc
    /\ fronts = <<>>
    /\ backs = <<>>

BigStep(name, r, x) ==
    /\ Live
    /\ \E q \in Outcomes(r) : rb' = q
    /\ op' = name
    /\ ret' = x
    /\ UNCHANGED <<vec, src, fronts, backs, two, own, abs, elem>>

BigPopBack == rb.len > Half - MaxDrain /\ BigStep("pop_back", pop_back(rb).rb, pop_back(rb).val)

BigPopFront == rb.len > Half - MaxDrain /\ BigStep("pop_front", pop_front(rb).rb, pop_front(rb).val)

BigReserveAdditional ==
    \E extra \in {0, 1, Half - 1, Half, UintMax} :
        BigStep("reserve_additional", reserve_additional(rb, extra), None)

BigPushBack == Len(fronts) + Len(backs) < MaxDrain /\ PushBackRecorded

BigPushFront == Len(fronts) + Len(backs) < MaxDrain /\ PushFrontRecorded

NextBig ==
    \/ BigPushBack \/ BigPushFront
    \/ BigPopBack \/ BigPopFront \/ BigReserveAdditional

SpecBig == InitBig /\ [][NextBig]_vars

\* ----------------------------------------------- elements and blocks followed
\* a buffer of numbered elements and the blocks of the allocator, through
\* calls that end with into_vec or with the buffer being dropped
InitOwn ==
    /\ elem = 1
    /\ abs = <<>>
    /\ two = NoTwo
    /\ \/ \E c \in 0..MaxInitCap :
              rb = with_capacity(c) /\ own = own_with_capacity /\ op = "with_capacity"
       \/ \E n \in 0..MaxVecLen : \E spare \in 0..MaxSpare :
              LET v == MkVec([i \in 1..n |-> i], spare)
              IN  rb = from_vec(v) /\ own = own_from_vec(v) /\ op = "from_vec"
    /\ ret = None
    /\ vec = NoVec
    /\ src = NoSrc
    /\ fronts = <<>>
    /\ backs = <<>>

\* a call that leaves buffer r, returns x, releases the elements `gone` and
\* stores `stored` new elements
OwnStep(name, r, x, gone, stored) ==
    /\ Live
    /\ r.cap <= MaxCap
    /\ r.cap # rb.cap => Len(own.blocks) < MaxBlocks
    /\ \E q \in Outcomes(r) :
          /\ rb' = q
          /\ \E real \in (IF q.cap = 0 THEN BOOLEAN ELSE {TRUE}) :
                own' = IF q.st = "ok"
                       THEN [own_release(own_resize(own, rb, q, real), gone)
                                EXCEPT !.next = @ + stored]
                       ELSE own
    /\ op' = name
    /\ ret' = x
    /\ UNCHANGED <<vec, src, fronts, backs, two, abs, elem>>

OwnPushBack ==
    /\ own.next <= MaxOwn
    /\ OwnStep("push_back", push_back(rb, own.next), None, <<>>, 1)

OwnPushFront ==
    /\ own.next <= MaxOwn
    /\ OwnStep("push_front", push_front(rb, own.next), None, <<>>, 1)

OwnPopBack ==
    OwnStep("pop_back", pop_back(rb).rb, pop_back(rb).val,
            IF pop_back(rb).val = None THEN <<>> ELSE <<pop_back(rb).val>>, 0)

OwnPopFront ==
    OwnStep("pop_front", pop_front(rb).rb, pop_front(rb).val,
            IF pop_front(rb).val = None THEN <<>> ELSE <<pop_front(rb).val>>, 0)

\* truncate reads out, and so destroys, the elements at the indices from k
OwnTruncate ==
    \E k \in Indices :
        OwnStep("truncate", truncate(rb, k), None,
                [i \in 1..(IF k < rb.len THEN rb.len - k ELSE 0) |-> get(rb, rb.len - i).val], 0)

OwnReserveExact ==
    \E n \in 0..(MaxLen + 2) : OwnStep("reserve_exact", reserve_exact(rb, n), None, <<>>, 0)

OwnShrinkToFit == OwnStep("shrink_to_fit", shrink_to_fit(rb), None, <<>>, 0)

OwnIntoVec ==
    /\ Live
    /\ rb' = [rb EXCEPT !.st = "moved"]
    /\ op' = "into_vec"
    /\ ret' = None
    /\ vec' = into_vec(rb)
    /\ own' = own_into_vec(own, into_vec(rb))
    /\ UNCHANGED <<src, fronts, backs, two, abs, elem>>

\* the buffer goes out of scope
OwnDrop ==
    /\ Live
    /\ rb' = [rb EXCEPT !.st = "moved"]
    /\ op' = "drop"
    /\ ret' = None
    /\ own' = drop(own, rb)
    /\ UNCHANGED <<vec, src, fronts, backs, two, abs, elem>>

NextOwn ==
    \/ OwnPushBack \/ OwnPushFront \/ OwnPopBack \/ OwnPopFront \/ OwnTruncate
    \/ OwnReserveExact \/ OwnShrinkToFit \/ OwnIntoVec \/ OwnDrop

SpecOwn == InitOwn /\ [][NextOwn]_vars

\* ------------------------------------------------ elements of size zero
\* a Vec<T> of n elements of size zero: no block; its capacity is the one the
\* Vec was made with, 0 by Vec::new() and uint::MAX by Vec::with_capacity
ZeroSizeVec(n, c) == [len |-> n, cap |-> c, ptr |-> <<>>]

\* the lengths within MaxDrain of either end of the range of uint
NearEnds(n) == n <= MaxDrain \/ n >= UintMax - MaxDrain

InitZst ==
    /\ elem = 0
    /\ abs = <<>>
    /\ two = NoTwo
    /\ own = [NoOwn EXCEPT !.on = TRUE]
    /\ \/ rb = new /\ op = "new"
       \/ \E c \in 0..MaxInitCap : rb = with_capacity(c) /\ op = "with_capacity"
       \/ \E n \in {0, 1, UintMax - 1, UintMax} : \E c \in {0, UintMax} :
              rb = from_vec(ZeroSizeVec(n, c)) /\ op = "from_vec"
    /\ ret = None
    /\ vec = NoVec
    /\ src = NoSrc
    /\ fronts = <<>>
    /\ backs = <<>>

\* a call that leaves buffer r and returns x; no path of it reaches alloc or
\* dealloc when the elements have size zero
ZstStep(name, r, x) ==
    /\ Live
    /\ NearEnds(r.len)
    /\ \E q \in Outcomes(r) : rb' = q
    /\ op' = name
    /\ ret' = x
    /\ UNCHANGED <<vec, src, fronts, backs, two, own, abs, elem>>

ZstPushBack == ZstStep("push_back", push_back(rb, Unit), None)

ZstPushFront == ZstStep("push_front", push_front(rb, Unit), None)

ZstPopBack == ZstStep("pop_back", pop_back(rb).rb, pop_back(rb).val)

ZstPopFront == ZstStep("pop_front", pop_front(rb).rb, pop_front(rb).val)

ZstTruncate ==
    \E d \in 0..MaxDrain :
        /\ d <= rb.len
        /\ ZstStep("truncate", truncate(rb, rb.len - d), None)

ZstReserveAdditional ==
    \E extra \in {0, 1, UintMax} :
        ZstStep("reserve_additional", reserve_additional(rb, extra), None)

ZstShrinkToFit == ZstStep("shrink_to_fit", shrink_to_fit(rb), None)

\* into_vec: reset asks alloc for its scratch block; alloc requests
\* capacity * 0 bytes of the allocator, which may hand out a block or not, and
\* dealloc does not give it back
ZstIntoVec ==
    /\ Live
    /\ rb' = [rb EXCEPT !.st = "moved"]
    /\ op' = "into_vec"
    /\ ret' = None
    /\ vec' = into_vec(rb)
    /\ \E real \in BOOLEAN :
          LET a == IF reset_scratch(rb) = None THEN own
                   ELSE [own_dealloc(own_alloc(own, real)) EXCEPT !.blk = own.blk]
          IN  own' = own_into_vec(a, into_vec(rb))
    /\ UNCHANGED <<src, fronts, backs, two, abs, elem>>

ZstDrop ==
    /\ Live
    /\ rb' = [rb EXCEPT !.st = "moved"]
    /\ op' = "drop"
    /\ ret' = None
    /\ own' = drop(own, rb)
    /\ UNCHANGED <<vec, src, fronts, backs, two, abs, elem>>

NextZst ==
    \/ ZstPushBack \/ ZstPushFront \/ ZstPopBack \/ ZstPopFront \/ ZstTruncate
    \/ ZstReserveAdditional \/ ZstShrinkToFit \/ ZstIntoVec \/ ZstDrop

SpecZst == InitZst /\ [][NextZst]_vars

\* ------------------------------------------- beside an abstract sequence
\* sequence s with the elements at indices i and j (from 0) exchanged
Exchanged(s, i, j) ==
    [k \in 1..Len(s) |-> IF k = i + 1 THEN s[j + 1] ELSE IF k = j + 1 THEN s[i + 1] ELSE s[k]]

\* a buffer made by with_capacity(c) and the sequence `abs` the same calls
\* make of the empty sequence
InitRefine ==
    /\ elem = 1
    /\ own = NoOwn
    /\ two = NoTwo
    /\ abs = <<>>
    /\ \E c \in 0..MaxInitCap : rb = with_capacity(c)
    /\ op = "with_capacity"
    /\ ret = None
    /\ vec = NoVec
    /\ src = NoSrc
    /\ fronts = <<>>
    /\ backs = <<>>

\* a call that leaves buffer r and returns x, while the sequence becomes a
RefStep(name, r, x, a) ==
    /\ Live
    /\ r.cap <= MaxCap
    /\ Len(a) <= MaxAbs
    /\ \E q \in Outcomes(r) : rb' = q
    /\ op' = name
    /\ ret' = x
    /\ abs' = a
    /\ UNCHANGED <<vec, src, fronts, backs, two, own, elem>>

RefPushFront ==
    \E v \in Val : RefStep("push_front", push_front(rb, v), None, <<v>> \o abs)

RefPushBack ==
    \E v \in Val : RefStep("push_back", push_back(rb, v), None, Append(abs, v))

RefPopFront ==
    RefStep("pop_front", pop_front(rb).rb, pop_front(rb).val,
            IF abs = <<>> THEN abs ELSE Tail(abs))

RefPopBack ==
    RefStep("pop_back", pop_back(rb).rb, pop_back(rb).val,
            IF abs = <<>> THEN abs ELSE SubSeq(abs, 1, Len(abs) - 1))

RefSwap ==
    \E i \in 0..MaxAbs : \E j \in 0..MaxAbs :
        RefStep("swap", swap(rb, i, j), None,
                IF i < Len(abs) /\ j < Len(abs) THEN Exchanged(abs, i, j) ELSE abs)

RefTruncate ==
    \E k \in 0..MaxAbs :
        RefStep("truncate", truncate(rb, k), None, SubSeq(abs, 1, Min(k, Len(abs))))

RefClear == RefStep("clear", clear(rb), None, <<>>)

RefReserve == \E n \in Sizes : RefStep("reserve", reserve(rb, n), None, abs)

RefReserveExact ==
    \E n \in SmallSizes : RefStep("reserve_exact", reserve_exact(rb, n), None, abs)

RefReserveAdditional ==
    \E n \in Sizes : RefStep("reserve_additional", reserve_additional(rb, n), None, abs)

NextRefine ==
    \/ RefPushFront \/ RefPushBack \/ RefPopFront \/ RefPopBack
    \/ RefSwap \/ RefTruncate \/ RefClear
    \/ RefReserve \/ RefReserveExact \/ RefReserveAdditional

SpecRefine == InitRefine /\ [][NextRefine]_vars

\* ------------------------------------------------- offsets near uint::MAX
\* capacities next to 1, to half the range of uint and to uint::MAX
OffsetCaps == {1, 2, 3, Half - 1, Half, Half + 1, UintMax - 1, UintMax}

\* the values next to 0 and next to n, n included
Near(n) == {k \in {0, 1, 2, n - 2, n - 1, n} : 0 <= k /\ k <= n}

\* the fields of a buffer with cap > 0, lo < cap and len <= cap; get_offset
\* reads no slot, and the block is left out
InitOffset ==
    /\ elem = 1
    /\ own = NoOwn
    /\ two = NoTwo
    /\ abs = <<>>
    /\ \E c \in OffsetCaps : \E l \in Near(c - 1) : \E n \in Near(c) :
          rb = [lo |-> l, len |-> n, cap |-> c, ptr |-> <<>>, st |-> "ok"]
    /\ op = "fields"
    /\ ret = None
    /\ vec = NoVec
    /\ src = NoSrc
    /\ fronts = <<>>
    /\ backs = <<>>

\* get_offset(index), as get, swap, truncate and the pops call it; abs keeps
\* the index
GetOffset ==
    /\ \E index \in Near(rb.len) :
          /\ ret' = get_offset(rb, index)
          /\ abs' = <<index>>
    /\ op' = "get_offset"
    /\ UNCHANGED <<rb, vec, src, fronts, backs, two, own, elem>>

GetBackOffset ==
    /\ ret' = get_back_offset(rb)
    /\ abs' = <<rb.len>>
    /\ op' = "get_back_offset"
    /\ UNCHANGED <<rb, vec, src, fronts, backs, two, own, elem>>

NextOffset == GetOffset \/ GetBackOffset

SpecOffset == InitOffset /\ [][NextOffset]_vars

NextClone == BuildStep \/ CloneTake \/ Mutate

SpecClone == Init /\ [][NextClone]_vars

\* ------------------------------------------------------------------ claims
\* the logical sequence, read with get(0), ..., get(len - 1)
Logical(r) == [i \in 1..r.len |-> get(r, i - 1).val]

Reverse(s) == [i \in 1..Len(s) |-> s[Len(s) + 1 - i]]

Wrapped(r) == r.lo + r.len > r.cap

\* C1: after any sequence of push_front and push_back calls on
\* with_capacity(c), the buffer read front to back is the values pushed to the
\* front, last pushed first, followed by the values pushed to the back in
\* push order.
C1_PushOrder ==
    /\ rb.st = "ok"
    /\ rb.len = Len(fronts) + Len(backs)
    /\ Logical(rb) = Reverse(fronts) \o backs

\* a buffer that grew twice (2 -> 4 -> 8), wraps, and took pushes at both ends
C1_Witness ==
    /\ rb.cap = 4 * MINIMUM_CAPACITY
    /\ Wrapped(rb)
    /\ Len(fronts) >= 2
    /\ Len(backs) >= 2
    /\ fronts[1] # fronts[2]

\* C2: pop_front returns the first element of the sequence the buffer holds,
\* the value front() showed before the call, and leaves the rest; pop_back
\* returns the last, the value back() showed, and leaves the rest; each takes
\* one off len; on an empty buffer each returns None.
C2_PopOrder ==
    [][/\ (Live /\ op' = "pop_front") =>
            IF rb.len = 0 THEN ret' = None
            ELSE /\ ret' = Head(Logical(rb))
                 /\ ret' = front(rb).val
                 /\ ret' \in Val
                 /\ rb'.st = "ok"
                 /\ rb'.len = rb.len - 1
                 /\ Logical(rb') = Tail(Logical(rb))
       /\ (Live /\ op' = "pop_back") =>
            IF rb.len = 0 THEN ret' = None
            ELSE /\ ret' = Logical(rb)[rb.len]
                 /\ ret' = back(rb).val
                 /\ ret' \in Val
                 /\ rb'.st = "ok"
                 /\ rb'.len = rb.len - 1
                 /\ Logical(rb') = SubSeq(Logical(rb), 1, rb.len - 1)]_vars

\* pop_front took the element in the last slot of the block: lo went round
\* to slot 0, and elements remain
C2_Witness ==
    /\ op = "pop_front"
    /\ ret \in Val
    /\ rb.st = "ok"
    /\ rb.lo = 0
    /\ rb.len >= 1
    /\ rb.cap > rb.len
    /\ rb.ptr[rb.cap] = Uninit

\* C3: into_vec returns the len elements get(0), ..., get(len - 1) in order.
\* (rb keeps the fields the buffer had when into_vec consumed it.)
C3_IntoVecLinear ==
    op = "into_vec" => (vec.len = rb.len /\ VecSeq(vec) = Logical(rb))

\* C4: into_vec(from_vec(v)) == v.
C4_RoundTrip ==
    (op = "into_vec" /\ src.valid) => VecSeq(vec) = src.items

C4_Witness ==
    /\ op = "into_vec"
    /\ src.valid
    /\ Len(src.items) = 2
    /\ src.items[1] # src.items[2]
    /\ vec.cap > vec.len

\* C5: in every state the public operations reach, len <= cap, and lo < cap
\* whenever cap > 0.
C5_FieldInvariant ==
    /\ rb.len <= rb.cap
    /\ rb.cap > 0 => rb.lo < rb.cap

\* C6: a push on a full buffer (len == cap) leaves capacity max(len, 1) * 2
\* and len one more than before, within the capacity.
C6_GrowthOnPush ==
    [][(Live /\ rb.len = rb.cap /\ op' \in {"push_back", "push_front"}) =>
            /\ rb'.cap = Max(rb.len, 1) * 2
            /\ rb'.len = rb.len + 1
            /\ rb'.len <= rb'.cap]_vars

\* C7: for every reachable buffer r and value v, push_back(v) then pop_back
\* returns v and leaves a buffer equal to r; the same for push_front(v) then
\* pop_front.
C7_EndSymmetry ==
    Live =>
        \A v \in Val :
            LET b == push_back(rb, v)
                f == push_front(rb, v)
            IN  /\ b.st = "ok"
                /\ pop_back(b).val = v
                /\ eq(pop_back(b).rb, rb)
                /\ f.st = "ok"
                /\ pop_front(f).val = v
                /\ eq(pop_front(f).rb, rb)

\* C8: on an empty buffer pop_front, pop_back, front, back, front_mut and
\* back_mut return None and leave lo, len, cap and the block as they were.
C8_EmptyQueries ==
    [][(Live /\ rb.len = 0
          /\ op' \in {"pop_front", "pop_back", "front", "back", "front_mut", "back_mut"}) =>
            (ret' = None /\ rb' = rb)]_vars

\* pop_front on a buffer that pops had emptied away from slot 0
C8_Witness ==
    /\ op = "pop_front"
    /\ ret = None
    /\ rb.st = "ok"
    /\ rb.len = 0
    /\ rb.lo # 0

\* C9: get(i) and get_mut(i) with i >= len, and swap(i, j) with i >= len or
\* j >= len, fail and change no slot and no field; with the indices below len
\* they do not fail, and get(i) returns the i-th element of the traversal.
C9_IndexBounds ==
    Live =>
        \A i \in Indices \cup {UintMax} :
            /\ i >= rb.len =>
                    /\ get(rb, i).rb = Failed(rb)
                    /\ \A v \in Val : get_mut(rb, i, v).rb = Failed(rb)
                    /\ \A j \in Indices : swap(rb, i, j) = Failed(rb)
                    /\ \A j \in Indices : swap(rb, j, i) = Failed(rb)
            /\ i < rb.len =>
                    /\ get(rb, i).rb = rb
                    /\ get(rb, i).val = iter(rb)[i + 1]
                    /\ get(rb, i).val \in Val
                    /\ \A v \in Val : get_mut(rb, i, v).rb.st = "ok"
                    /\ \A j \in 0..(rb.len - 1) : swap(rb, i, j).st = "ok"

\* get failed on an index past the end of a buffer that holds elements
C9_Witness ==
    /\ op = "get"
    /\ rb.st = "failed"
    /\ rb.len >= 1
    /\ rb.lo # 0

\* the least power of two that is at least n and fits a uint; 0 if none does
\* or n is 0
PowCeil(n) ==
    LET P == {TwoPow(k) : k \in 0..(UintBits - 1)}
        S == {q \in P : q >= n}
    IN  IF n = 0 \/ S = {} THEN 0 ELSE CHOOSE q \in S : \A t \in S : q <= t

C11_ReserveAdditional ==
    [][(Live /\ op' = "reserve_additional" /\ rb'.st = "ok") =>
            \A extra \in Sizes :
                rb' = reserve_additional(rb, extra) =>
                    /\ Uint(rb'.cap - rb'.len) >= extra
                    /\ Uint(rb.cap - rb.len) >= extra => rb' = rb
                    /\ rb'.len = rb.len
                    /\ Logical(rb') = Logical(rb)]_vars

\* C12: reserve_exact(n) leaves the capacity at exactly n when n > cap, and
\* otherwise leaves cap, lo and the block as they were; len and the elements
\* are unchanged either way.
C12_ReserveExact ==
    [][(Live /\ op' = "reserve_exact") =>
            \A n \in SmallSizes :
                rb' = reserve_exact(rb, n) =>
                    /\ rb'.st = "ok"
                    /\ n > rb.cap => rb'.cap = n
                    /\ n <= rb.cap => rb' = rb
                    /\ rb'.len = rb.len
                    /\ Logical(rb') = Logical(rb)]_vars

\* reserve_exact has left a capacity that neither a constructor nor a
\* doubling gives, under elements
C12_Witness ==
    /\ op = "reserve_exact"
    /\ rb.st = "ok"
    /\ rb.cap = 5
    /\ rb.len >= 2

C14_NoReallocBelowCap ==
    [][(Live /\ rb.len < rb.cap /\ op' \in {"push_back", "push_front"}) =>
            /\ rb'.st = "ok"
            /\ rb'.cap = rb.cap
            /\ rb'.len = rb.len + 1
            /\ Len(rb'.ptr) = Len(rb.ptr)
            /\ Cardinality({k \in 1..Len(rb.ptr) : rb'.ptr[k] # rb.ptr[k]}) <= 1
            /\ \A k \in 1..Len(rb.ptr) : rb.ptr[k] \in Val => rb'.ptr[k] = rb.ptr[k]]_vars

\* a block of 3 slots, a size no doubling gives, filled to the last slot by
\* pushes of which the last was at the front
C14_Witness ==
    /\ op = "push_front"
    /\ rb.st = "ok"
    /\ rb.cap = 3
    /\ rb.len = 3
    /\ rb.lo # 0

Other(s) == IF s = "x" THEN "y" ELSE "x"

\* C15: the clone of a buffer equals it, and a later push, pop, swap,
\* truncate or write through get_mut on the clone leaves the original's lo,
\* len, cap and elements as they were, and the other way round.
C15_CloneIndependence ==
    [][/\ (~two.on /\ two'.on) =>
            /\ ViewIn(two', "x") = rb
            /\ ViewIn(two', "y").st = "ok"
            /\ eq(ViewIn(two', "y"), ViewIn(two', "x"))
            /\ eq(ViewIn(two', "x"), ViewIn(two', "y"))
            /\ Logical(ViewIn(two', "y")) = Logical(rb)
       /\ (two.on /\ two'.on /\ two' # two) =>
            LET o == Other(two'.last)
            IN  /\ ViewIn(two', o).lo = ViewIn(two, o).lo
                /\ ViewIn(two', o).len = ViewIn(two, o).len
                /\ ViewIn(two', o).cap = ViewIn(two, o).cap
                /\ Logical(ViewIn(two', o)) = Logical(ViewIn(two, o))
                /\ ViewIn(two', o) = ViewIn(two, o)]_vars

\* a wrapped buffer was cloned, the clone was changed and then the original,
\* and the two now differ
C15_Witness ==
    /\ two.on
    /\ two.n = 2
    /\ two.last = "x"
    /\ Wrapped(rb)
    /\ Logical(ViewIn(two, "y")) # Logical(rb)
    /\ Logical(ViewIn(two, "x")) # Logical(rb)
    /\ Logical(ViewIn(two, "x")) # Logical(ViewIn(two, "y"))

\* sequence s is lexicographically less than t
LexLess(s, t) ==
    \E k \in 0..Min(Len(s), Len(t)) :
        /\ \A i \in 1..k : s[i] = t[i]
        /\ \/ k = Len(s) /\ k < Len(t)
           \/ k < Len(s) /\ k < Len(t) /\ s[k + 1] < t[k + 1]

LexCmp(s, t) == IF s = t THEN "Equal" ELSE IF LexLess(s, t) THEN "Less" ELSE "Greater"

\* C16: two buffers are equal exactly when they have the same len and the
\* same element at every index, whatever lo, cap and the layout of either:
\* built by push_front, by push_back or by from_vec.
C16_Equality ==
    Live =>
        \A b \in Others :
            /\ eq(rb, b) <=> (rb.len = b.len /\ Logical(rb) = Logical(b))
            /\ eq(b, rb) <=> (rb.len = b.len /\ Logical(rb) = Logical(b))

\* a wrapped buffer equals a buffer with another capacity that does not wrap
C16_Witness ==
    /\ Live
    /\ Wrapped(rb)
    /\ rb.len >= 2
    /\ Logical(rb)[1] # Logical(rb)[2]
    /\ \E b \in Others : b.lo = 0 /\ b.cap # rb.cap /\ eq(rb, b)

\* C17: lt(a, b) is true exactly when the sequence of a is lexicographically
\* less than the sequence of b.
C17_LessThan ==
    Live =>
        \A b \in Others :
            /\ lt(rb, b) <=> LexLess(Logical(rb), Logical(b))
            /\ lt(b, rb) <=> LexLess(Logical(b), Logical(rb))

\* C18: cmp(a, b) is the lexicographic comparison of the two sequences,
\* Equal only when eq(a, b), whatever lo and cap of either.
C18_Cmp ==
    Live =>
        \A b \in Others :
            /\ cmp(rb, b) = LexCmp(Logical(rb), Logical(b))
            /\ cmp(b, rb) = LexCmp(Logical(b), Logical(rb))
            /\ cmp(rb, b) = "Equal" <=> eq(rb, b)

\* a wrapped buffer of three elements is Less than a shorter one: the second
\* pair decides, not the lengths
C18_Witness ==
    /\ Live
    /\ Wrapped(rb)
    /\ rb.len = 3
    /\ \E b \in Others :
          /\ b.len = 2
          /\ Logical(b)[1] = Logical(rb)[1]
          /\ cmp(rb, b) = "Less"

\* C19: truncate(k) leaves len at min(k, len) with the first min(k, len)
\* elements, lo and cap as they were, and changes nothing when k >= len, so
\* truncating again to k changes nothing; clear() leaves a buffer equal to a
\* freshly created empty one.
C19_Truncate ==
    [][/\ (Live /\ op' = "truncate") =>
            \A k \in Indices :
                rb' = truncate(rb, k) =>
                    /\ rb'.st = "ok"
                    /\ rb'.len = Min(k, rb.len)
                    /\ Logical(rb') = SubSeq(Logical(rb), 1, Min(k, rb.len))
                    /\ rb'.lo = rb.lo
                    /\ rb'.cap = rb.cap
                    /\ k >= rb.len => rb' = rb
                    /\ truncate(rb', k) = rb'
       /\ (Live /\ op' = "clear") =>
            /\ rb'.st = "ok"
            /\ rb'.len = 0
            /\ eq(rb', new) /\ eq(new, rb')
            /\ eq(rb', with_capacity(0))]_vars

\* truncate took elements off a buffer that wrapped: one element is left in
\* the last slot of the block and the slots after it, round the end, are empty
C19_Witness ==
    /\ op = "truncate"
    /\ rb.st = "ok"
    /\ rb.cap = 3
    /\ rb.lo = 2
    /\ rb.len = 1
    /\ rb.ptr[1] = Uninit
    /\ rb.ptr[2] = Uninit

\* C20: a traversal by iter() or mut_iter() yields exactly len items, get(0),
\* ..., get(len - 1) in that order, then None; before each item the size hint
\* is exact, both bounds being the number of items still to come; a new
\* traversal starts at index 0.
C20_Traversal ==
    Live =>
        \A I \in {Items(rb), MutItems(rb)} :
            /\ \A k \in 0..rb.len :
                  /\ chain_size_hint(advance(I, k)) =
                         [lower |-> rb.len - k, upper |-> rb.len - k]
                  /\ k < rb.len => chain_next(advance(I, k)).val = get(rb, k).val
                  /\ k < rb.len => chain_next(advance(I, k)).val \in Val
            /\ chain_next(advance(I, rb.len)).val = None
            /\ rb.len > 0 => chain_next(I).val = front(rb).val

\* iter() on a buffer of three elements that wraps, so that both slices
\* take part
C20_Witness ==
    /\ op = "iter"
    /\ rb.st = "ok"
    /\ Wrapped(rb)
    /\ rb.len = 3
    /\ ret = Logical(rb)[1]
    /\ Logical(rb)[1] # Logical(rb)[3]

\* C21: a traversal by iter().rev() or mut_iter().rev() yields exactly len
\* items, get(len - 1), get(len - 2), ..., get(0) in that order, then None:
\* the second slice from its end, then the first from its end.
C21_ReverseTraversal ==
    Live =>
        \A I \in {Items(rb), MutItems(rb)} :
            /\ \A k \in 0..(rb.len - 1) :
                  /\ chain_next_back(advance_back(I, k)).val = get(rb, rb.len - 1 - k).val
                  /\ chain_next_back(advance_back(I, k)).val \in Val
            /\ chain_next_back(advance_back(I, rb.len)).val = None
            /\ \A k \in 0..rb.len :
                  k < Len(I.b) <=> advance_back(I, k).b # <<>>

\* iter().rev() on a buffer of three elements that wraps: the first item
\* comes from the second slice
C21_Witness ==
    /\ op = "rev_iter"
    /\ rb.st = "ok"
    /\ Wrapped(rb)
    /\ rb.len = 3
    /\ ret = Logical(rb)[3]
    /\ Logical(rb)[1] # Logical(rb)[3]

\* C22: swap(i, j) with i, j < len exchanges the elements at indices i and j
\* and leaves every other element, lo, len and cap as they were; with i = j
\* nothing changes; this holds with lo # 0 and with the two indices on the
\* two sides of the end of the block.
C22_Swap ==
    [][(Live /\ op' = "swap") =>
            \A i \in 0..(rb.len - 1) : \A j \in 0..(rb.len - 1) :
                rb' = swap(rb, i, j) =>
                    /\ rb'.st = "ok"
                    /\ Logical(rb') = Exchanged(Logical(rb), i, j)
                    /\ rb'.lo = rb.lo /\ rb'.len = rb.len /\ rb'.cap = rb.cap
                    /\ i = j => rb' = rb
                    /\ \A k \in 1..Len(rb.ptr) :
                          (k # get_offset(rb, i) + 1 /\ k # get_offset(rb, j) + 1)
                              => rb'.ptr[k] = rb.ptr[k]]_vars

\* swap ran on a buffer whose first element is in the last slot of the block
\* and whose last is at its start, and the two differ
C22_Witness ==
    /\ op = "swap"
    /\ rb.st = "ok"
    /\ rb.len = 3
    /\ rb.lo = rb.cap - 1
    /\ Logical(rb)[1] # Logical(rb)[3]

\* C23: extend(seq) on a buffer holding s leaves it holding s followed by the
\* elements of seq, and from_iter(seq) gives a buffer equal to an empty one
\* extended with seq, whatever lower bound the size hint of seq gives.
C23_Extend ==
    [][(Live /\ op' = "extend") =>
            \A items \in SeqsUpTo(MaxExt) : \A lower \in 0..Len(items) :
                /\ rb' = extend(rb, items, lower) =>
                      /\ rb'.st = "ok"
                      /\ rb'.len = rb.len + Len(items)
                      /\ Logical(rb') = Logical(rb) \o items
                /\ from_iter(items, lower).st = "ok"
                /\ Logical(from_iter(items, lower)) = items
                /\ eq(from_iter(items, lower), extend(new, items, lower))]_vars

\* the elements stored so far
Stored == 1..(own.next - 1)

\* C24: every element ever stored is released exactly once, handed to the
\* caller (pop_front, pop_back, into_vec) or destroyed (truncate, clear,
\* drop): never twice, and not at all only while the buffer holds it.  Once
\* the buffer was dropped or turned into a Vec, every element was released.
C24_ReleasedOnce ==
    \A e \in Stored :
        /\ own.rel[e] <= 1
        /\ rb.st = "moved" => own.rel[e] = 1
        /\ rb.st = "ok" => (own.rel[e] = 0 <=> \E i \in 1..rb.len : Logical(rb)[i] = e)

\* C25: a block has exactly one owner until it is freed, and is freed at
\* most once; the buffer owns the block its ptr points at (from_vec adopts
\* the Vec's), into_vec leaves it to the Vec, resize frees the old block
\* once; no block is freed twice and none is left without an owner unfreed.
C25_BlockOwnership ==
    /\ \A b \in 1..Len(own.blocks) :
          /\ own.blocks[b].frees <= 1
          /\ own.blocks[b].frees = 0 <=> own.blocks[b].owner # "none"
          /\ own.blocks[b].owner = "rb" => (b = own.blk /\ rb.st # "moved")
          /\ own.blocks[b].owner = "vec" => (b = own.blk /\ op = "into_vec")
    /\ (rb.st = "ok" /\ rb.cap > 0) => own.blk # 0

\* C26: no call of a public operation makes resize run with a capacity
\* smaller than len, so the assertion at its head never fails.
C26_ResizeAssertion == rb.st # "underflow"

\* C27: a call in which len + 1, len + extra or, on growth, len * 2 does not
\* fit a uint fails with `length overflow` or `capacity overflow`; none goes
\* on with the wrapped value.
C27_OverflowFailsFast ==
    [][/\ (Live /\ op' \in {"push_back", "push_front"}
             /\ rb.len = rb.cap /\ rb.len * 2 > UintMax) => rb'.st = "failed"
       /\ (Live /\ op' \in {"push_back", "push_front"}
             /\ rb.len + 1 > UintMax) => rb'.st = "failed"
       /\ (Live /\ op' = "reserve_additional") =>
             \A extra \in {0, 1, Half - 1, Half, UintMax} :
                 (rb' = reserve_additional(rb, extra)
                     /\ Uint(rb.cap - rb.len) < extra /\ rb.len + extra > UintMax)
                         => rb'.st = "failed"]_vars

\* C28: for elements of size zero no block is ever allocated or freed,
\* capacity always reports the largest uint, push_back and push_front only
\* add one to len, a pop that returns an element and every element truncated
\* take one from len, and a push at len = uint::MAX fails leaving len as it was.
C28_ZeroSize ==
    [][/\ own'.blocks = <<>> /\ own'.badfree = 0
       /\ capacity(rb') = UintMax
       /\ (op' \in {"push_back", "push_front"}) =>
              IF rb.len = UintMax
              THEN rb'.st = "failed" /\ rb'.len = rb.len
              ELSE rb' = [rb EXCEPT !.len = rb.len + 1]
       /\ (op' \in {"pop_back", "pop_front"}) =>
              IF rb.len = 0
              THEN ret' = None /\ rb'.len = 0
              ELSE ret' = Unit /\ rb'.len = rb.len - 1
       /\ (op' = "truncate") =>
              \A d \in 0..MaxDrain :
                  (d <= rb.len /\ rb' = truncate(rb, rb.len - d)) => rb'.len = rb.len - d]_vars

\* C29: in every reachable state as_slices and as_mut_slices return
\* (span1, span2) with |span1| + |span2| = len, span1 the slots
\* [lo, lo + |span1|) and span2 the slots [0, |span2|), both inside [0, cap)
\* and disjoint, span1 followed by span2 the logical sequence in order, and
\* span2 non-empty exactly when lo > cap - len; a buffer filled only by
\* push_back from new() has span2 empty.
C29_Slices ==
    /\ \A s \in {as_slices(rb), as_mut_slices(rb)} :
          /\ s[1].len + s[2].len = rb.len
          /\ s[1].data = rb.lo /\ s[2].data = 0
          /\ s[1].data + s[1].len <= rb.cap
          /\ s[2].len <= rb.cap
          /\ s[2].len > 0 => s[2].len <= s[1].data
          /\ SliceSeq(rb, s[1]) \o SliceSeq(rb, s[2]) = Logical(rb)
          /\ s[2].len > 0 <=> rb.lo > rb.cap - rb.len
    /\ \A n \in 0..(INITIAL_CAPACITY + 1) : \A v \in Val :
          LET r == push_all(new, [i \in 1..n |-> v])
          IN  /\ as_slices(r)[2].len = 0
              /\ as_mut_slices(r)[2].len = 0
              /\ SliceSeq(r, as_slices(r)[1]) = [i \in 1..n |-> v]

\* C30: for any interleaving of push_front, push_back, pop_front, pop_back,
\* swap, truncate, clear, reserve, reserve_exact and reserve_additional on a
\* buffer made by with_capacity(c), the value each pop returns, front(),
\* back(), len and get(i) for all i < len are, step by step, those of the
\* same calls on an abstract sequence without bound.  A call fails only where
\* the sequence has no answer either: swap of an index that is not there, or
\* a reserve_additional whose len + extra does not fit a uint.
C30_Refinement ==
    [][/\ rb'.st \in {"ok", "failed"}
       /\ rb'.st = "failed" => op' \in {"swap", "reserve_additional"} /\ rb' = Failed(rb)
       /\ op' = "swap" =>
              \A i \in 0..MaxAbs : \A j \in 0..MaxAbs :
                  swap(rb, i, j).st = "failed" <=> ~(i < Len(abs) /\ j < Len(abs))
       /\ op' = "reserve_additional" =>
              \A n \in Sizes :
                  reserve_additional(rb, n).st = "failed" => Len(abs) + n > UintMax
       /\ rb'.st = "ok" =>
              /\ rb'.len = Len(abs')
              /\ \A i \in 0..MaxAbs :
                    get(rb', i).val = IF i < Len(abs') THEN abs'[i + 1] ELSE None
              /\ front(rb').val = IF abs' = <<>> THEN None ELSE abs'[1]
              /\ back(rb').val = IF abs' = <<>> THEN None ELSE abs'[Len(abs')]
              /\ op' = "pop_front" => ret' = IF abs = <<>> THEN None ELSE abs[1]
              /\ op' = "pop_back" => ret' = IF abs = <<>> THEN None ELSE abs[Len(abs)]]_vars

\* a buffer that has grown and wraps, holding MaxAbs elements, two of them
\* different, just after a push
C30_Witness ==
    /\ rb.st = "ok"
    /\ op \in {"push_front", "push_back"}
    /\ Len(abs) = MaxAbs
    /\ Wrapped(rb)
    /\ rb.cap > MaxInitCap
    /\ \E i \in 1..Len(abs) : abs[i] # abs[1]
    /\ Logical(rb) = abs

\* C31: in every state reached through the public operations every slot an
\* operation reads or writes lies in [0, cap), every slot read holds a live
\* element, and the slot a push writes holds no live element at that moment.
C31_SlotSafety ==
    [][Live =>
          /\ rb'.st \notin {"ub", "fault"}
          /\ ret' \notin {Uninit, Wild}
          /\ (op' = "push_back") =>
                 LET g == IF rb.len = rb.cap THEN resize(rb, Uint(rb.len * 2)) ELSE rb
                 IN  get_back_offset(g) < g.cap /\ Read(g, get_back_offset(g)) = Uninit
          /\ (op' = "push_front") =>
                 LET g == IF rb.len = rb.cap THEN resize(rb, Uint(rb.len * 2)) ELSE rb
                 IN  get_front_offset(g) < g.cap /\ Read(g, get_front_offset(g)) = Uninit]_vars

\* C32: the cases of reset are mutually exclusive: on a buffer that does not
\* wrap, with lo > 0 and len > 0, reset performs exactly one move, the shift
\* of span1 down to offset 0, and none of the moves of cases c, d and e.
C32_ResetExclusive ==
    [][(Live /\ op' = "into_vec" /\ rb.lo > 0 /\ rb.len > 0 /\ as_slices(rb)[2].len = 0)
          => reset_moves(rb) = <<Move("block", 0, "block", rb.lo, rb.len)>>]_vars

\* C33: reset on a wrapped buffer (both spans non-empty), in each of the
\* cases c, d and e, ends with lo = 0, len and cap unchanged, and slots
\* 0..len-1 holding the former logical sequence in order, span1's elements
\* followed by span2's.
C33_ResetWrapped ==
    [][(Live /\ op' = "into_vec"
             /\ as_slices(rb)[1].len > 0 /\ as_slices(rb)[2].len > 0) =>
          LET g == reset(rb)
          IN  /\ g.lo = 0
              /\ g.len = rb.len
              /\ g.cap = rb.cap
              /\ Slots(g.ptr, 0, rb.len)
                     = SliceSeq(rb, as_slices(rb)[1]) \o SliceSeq(rb, as_slices(rb)[2])
              /\ Slots(g.ptr, 0, rb.len) = Logical(rb)
              /\ vec' = [len |-> rb.len, cap |-> rb.cap, ptr |-> g.ptr]]_vars

\* into_vec has consumed a full wrapped buffer of the last case (span1 not
\* shorter than span2, no free room) holding two different elements
C33_Witness ==
    /\ op = "into_vec"
    /\ as_slices(rb)[2].len > 0
    /\ as_slices(rb)[1].len >= as_slices(rb)[2].len
    /\ reset_scratch(rb) = as_slices(rb)[2].len
    /\ \E i \in 1..rb.len : Logical(rb)[i] # Logical(rb)[1]
    /\ VecSeq(vec) = Logical(rb)

\* reset's case d: the buffer wraps, len1 > (cap - len1) - len2 and len1 < len2
CaseD(r) ==
    /\ r.lo > 0
    /\ as_slices(r)[1].len > 0
    /\ as_slices(r)[2].len > 0
    /\ as_slices(r)[1].len > (r.cap - as_slices(r)[1].len) - as_slices(r)[2].len
    /\ as_slices(r)[1].len < as_slices(r)[2].len

\* C34: in reset's case d span1 is copied into a scratch block of size len1,
\* span2 is shifted, and the scratch block is copied back starting at
\* physical offset len2.
C34_CaseD ==
    [][(Live /\ op' = "into_vec" /\ CaseD(rb)) =>
          LET len1 == as_slices(rb)[1].len
              len2 == as_slices(rb)[2].len
          IN  /\ reset_scratch(rb) = len1
              /\ reset_moves(rb) = <<Move("scratch", 0, "block", rb.lo, len1),
                                     Move("block", len1, "block", 0, len2),
                                     Move("block", len2, "scratch", 0, len1)>>]_vars

\* C34 as the code has it: the scratch block is copied back starting at
\* physical offset 0, in front of span2, which was shifted to offset len1.
C34_CaseDAmended ==
    [][(Live /\ op' = "into_vec" /\ CaseD(rb)) =>
          LET len1 == as_slices(rb)[1].len
              len2 == as_slices(rb)[2].len
          IN  /\ reset_scratch(rb) = len1
              /\ reset_moves(rb) = <<Move("scratch", 0, "block", rb.lo, len1),
                                     Move("block", len1, "block", 0, len2),
                                     Move("block", 0, "scratch", 0, len1)>>]_vars

\* into_vec has consumed a buffer of case d whose span1 differs from the
\* start of span2, and handed out the sequence in order
C34_Witness ==
    /\ op = "into_vec"
    /\ CaseD(rb)
    /\ Logical(rb)[1] # Logical(rb)[as_slices(rb)[1].len + 1]
    /\ VecSeq(vec) = Logical(rb)

\* C35: reset allocates a scratch block only in cases d and e, of the length
\* of the shorter span, and frees it before it returns; in cases a (lo = 0),
\* b (no wrap) and c (room for span1 beside the spans) it neither allocates
\* nor deallocates.
C35_ResetScratch ==
    [][(Live /\ op' = "into_vec") =>
          LET len1 == as_slices(rb)[1].len
              len2 == as_slices(rb)[2].len
          IN  IF rb.lo = 0 \/ len1 = 0 \/ len2 = 0 \/ len1 <= (rb.cap - len1) - len2
              THEN reset_scratch(rb) = None /\ reset_dealloc(rb) = None
              ELSE reset_scratch(rb) = Min(len1, len2)
                      /\ reset_dealloc(rb) = reset_scratch(rb)]_vars

\* C36: resize(n) with n >= len and n # cap, as push growth, reserve,
\* reserve_exact, reserve_additional and shrink_to_fit reach it, leaves len
\* and the logical sequence unchanged, sets cap = n and lo = 0, and places
\* span1's elements at the new slots [0, len1) and span2's at [len1, len);
\* hence shrink_to_fit ends with capacity exactly len.
C36_Resize ==
    [][Live =>
          /\ \A n \in SmallSizes :
                (n >= rb.len /\ n # rb.cap) =>
                    LET g == resize(rb, n)
                        len1 == as_slices(rb)[1].len
                        len2 == as_slices(rb)[2].len
                    IN  /\ g.st = "ok"
                        /\ g.len = rb.len
                        /\ g.cap = n
                        /\ g.lo = 0
                        /\ Len(g.ptr) = n
                        /\ Logical(g) = Logical(rb)
                        /\ Slots(g.ptr, 0, len1) = SliceSeq(rb, as_slices(rb)[1])
                        /\ Slots(g.ptr, len1, len2) = SliceSeq(rb, as_slices(rb)[2])
          /\ (op' \in {"reserve", "reserve_exact", "reserve_additional"}
                 /\ rb'.cap # rb.cap) =>
                    rb'.cap >= rb.len /\ rb' = resize(rb, rb'.cap)
          /\ (op' \in {"push_back", "push_front"} /\ rb'.cap # rb.cap) =>
                    /\ rb'.cap = rb.len * 2
                    /\ \E v \in Val :
                          \/ rb' = push_back(resize(rb, rb.len * 2), v)
                          \/ rb' = push_front(resize(rb, rb.len * 2), v)
          /\ (op' = "shrink_to_fit") =>
                    /\ rb'.cap = rb.len
                    /\ rb'.len = rb.len
                    /\ Logical(rb') = Logical(rb)
                    /\ rb.cap # rb.len => rb' = resize(rb, rb.len)]_vars

\* reserve_exact has left a buffer of two different elements in a block of
\* MaxLen + 2 slots, a capacity only resize produces, in slots 0 and 1
C36_Witness ==
    /\ rb.st = "ok"
    /\ op = "reserve_exact"
    /\ rb.cap = MaxLen + 2
    /\ rb.len = 2
    /\ rb.lo = 0
    /\ rb.ptr[1] # rb.ptr[2]
    /\ Uninit \notin {rb.ptr[1], rb.ptr[2]}

\* C37: deallocate is only ever called with capacity > 0: no resize, reset
\* or drop, on any reachable buffer, releases a block with capacity 0.
C37_DeallocCapacity ==
    [][Live =>
          /\ drop_dealloc(rb) # 0
          /\ (op' \in {"push_back", "push_front", "reserve", "reserve_exact",
                        "reserve_additional", "shrink_to_fit"}) =>
                 resize_dealloc(rb, rb'.cap) # 0
          /\ (op' = "into_vec") =>
                 (reset_dealloc(rb) # None => dealloc(reset_dealloc(rb)) # 0)]_vars

\* C38: for cap > 0, lo < cap, len <= cap and every index in 0..len,
\* get_offset(index) is (lo + index) mod cap, and none of the differences and
\* sums it evaluates leaves the range of uint, also when cap, lo and index are
\* next to uint::MAX.
C38_Offset ==
    (op \in {"get_offset", "get_back_offset"}) =>
        LET index == abs[1]
            values == get_offset_values(rb, index)
        IN  /\ ret = (rb.lo + index) % rb.cap
            /\ ret < rb.cap
            /\ \A k \in DOMAIN values : values[k] >= 0 /\ values[k] <= UintMax
            /\ op = "get_back_offset" => index = rb.len

\* the largest buffer, full, with lo at its last slot: lo + index does not
\* fit a uint, and the offset is the slot before lo
C38_Witness ==
    /\ op = "get_offset"
    /\ rb.cap = UintMax
    /\ rb.lo = UintMax - 1
    /\ rb.len = UintMax
    /\ abs = <<UintMax>>
    /\ rb.lo + abs[1] > UintMax
    /\ ret = UintMax - 1

\* C39: push_front computes front_offset (cap - 1 if lo = 0, else lo - 1)
\* before the growth step, writes the value at that slot, sets lo to that
\* offset and increments len; the new element becomes logical index 0 and
\* every previous element at logical index i becomes i + 1.
C39_PushFront ==
    [][(Live /\ op' = "push_front") =>
          /\ \E v \in Val :
                /\ rb' = push_front_offset_first(rb, v)
                /\ Logical(rb') = <<v>> \o Logical(rb)
          /\ rb'.lo = get_front_offset(rb)
          /\ rb'.len = rb.len + 1]_vars

\* C40: extend with a sequence of size hint h, on a buffer of length L, asks
\* for room for exactly h more elements: the capacity after its
\* pre-reservation is the capacity reserve_additional(h) would give, and
\* appending a sequence whose length is its hint changes the capacity no
\* further.
C40_ExtendReserve ==
    [][(Live /\ op' = "extend") =>
          \A items \in SeqsUpTo(MaxExt) :
              (extend(rb, items, Len(items)).cap <= MaxCap) =>
                  /\ extend_reserve(rb, Len(items)).cap
                         = reserve_additional(rb, Len(items)).cap
                  /\ extend(rb, items, Len(items)).cap
                         = extend_reserve(rb, Len(items)).cap]_vars

====
